---- MODULE Spec2Model ----
(***************************************************************************)
(* patch-lite: the JSON highlighter (src/json_highlight.rs) and the update *)
(* loop of the application (src/main.rs) and the request sender           *)
(* (src/request.rs).                                                       *)
(*                                                                         *)
(* A text is a sequence of characters; a character is a one-symbol string. *)
(* Two symbols stand for non-ASCII characters: "U+00E9" (2 bytes in UTF-8) *)
(* and "U+1D11E" (4 bytes in UTF-8).  Rust's `&str` is indexed by bytes,   *)
(* `Vec<char>` by characters; the model keeps both views.                  *)
(***************************************************************************)
EXTENDS Integers, Sequences, FiniteSets, TLC

VARIABLES
    src,        \* json_to_spans: the text being scanned (as chars)
    i,          \* json_to_spans: cursor, an index into chars (0-based)
    buf,        \* json_to_spans: accumulation buffer
    out,        \* json_to_spans: spans emitted so far
    in_string,  \* json_to_spans: inside a string literal
    escape,     \* json_to_spans: previous char was an unescaped backslash
    pc,         \* "loop" | "done" (returned) | "panic" (thread panicked)
    rich,       \* outcome of a call rich_json_str(src), NotCalled before it
    pretty,     \* outcome of a call pretty_json_str(src), NotCalled before it
    selected,   \* PatchLiteApp.selected (0-based index into requests)
    method,     \* PatchLiteApp.method
    url,        \* PatchLiteApp.url
    response,   \* PatchLiteApp.response: <<>> is None, <<rv>> is Some(rv)
    in_flight,  \* PatchLiteApp.in_flight
    last_error, \* PatchLiteApp.last_error: <<>> is None, <<e>> is Some(e)
    pending,    \* requests launched by Command::perform and not yet done
    msg,        \* the message of the last call of update, "none" before it
    request,    \* the HttpRequest that send is called on
    wire        \* the request that HttpRequest::send hands to the client

scan_vars == <<i, buf, out, in_string, escape, pc>>
doc_vars == <<rich, pretty>>
app_fields == <<selected, method, url, response, in_flight, last_error>>
app_vars == <<selected, method, url, response, in_flight, last_error, pending, msg>>
send_vars == <<request, wire>>
vars == <<src, i, buf, out, in_string, escape, pc, rich, pretty,
          selected, method, url, response, in_flight, last_error, pending, msg,
          request, wire>>

----------------------------------------------------------------------------
(* Bounds of the model *)

MaxChunks == 4

----------------------------------------------------------------------------
(* Characters and UTF-8 *)

QUOTE == "\""
BACKSLASH == "\\"
E2 == "U+00E9"
E4 == "U+1D11E"

\* char::len_utf8
Utf8Len(c) == IF c = E2 THEN 2 ELSE IF c = E4 THEN 4 ELSE 1

\* char::is_whitespace
is_whitespace(c) == c \in {" ", "\n"}

\* char::is_ascii_digit
is_ascii_digit(c) == c \in {"0", "1", "2", "3", "4", "5", "6", "7", "8", "9"}

\* ".eE+-".contains(c)
InNumberTail(c) == c \in {".", "e", "E", "+", "-"}

IsPunct(c) == c \in {":", "{", "}", "[", "]", ","}

RECURSIVE ByteLen(_)
\* str::len (bytes) of a text
ByteLen(s) == IF s = <<>> THEN 0 ELSE Utf8Len(Head(s)) + ByteLen(Tail(s))

\* byte offset of the char with 0-based index k
ByteOffset(s, k) == ByteLen(SubSeq(s, 1, k))

\* str::is_char_boundary
is_char_boundary(s, b) == \E k \in 0..Len(s) : ByteOffset(s, k) = b

\* &s[b..] for a byte index b that is a char boundary
SliceFromByte(s, b) ==
    LET k == CHOOSE k \in 0..Len(s) : ByteOffset(s, k) = b
    IN SubSeq(s, k + 1, Len(s))

\* str::starts_with
starts_with(s, lit) == Len(s) >= Len(lit) /\ SubSeq(s, 1, Len(lit)) = lit

TRUE_LIT == <<"t", "r", "u", "e">>
FALSE_LIT == <<"f", "a", "l", "s", "e">>
NULL_LIT == <<"n", "u", "l", "l">>

----------------------------------------------------------------------------
(* Theme *)

\* Theme::default
ThemeDefault ==
    [key     |-> <<67, 156, 255>>,
     string  |-> <<80, 250, 123>>,
     number  |-> <<255, 184, 108>>,
     boolean |-> <<189, 147, 249>>,
     null_   |-> <<139, 139, 139>>,
     punct   |-> <<120, 120, 120>>,
     default |-> <<220, 220, 220>>]

th == ThemeDefault

\* Span::new(text).color(color)
Span(text, color) == [text |-> text, color |-> color]

----------------------------------------------------------------------------
(* json_to_spans, one iteration of `while i < chars.len()` at a time.      *)
(* A scanner state is a record st with the fields of the local variables.  *)

\* flush without its `if b.is_empty() { return; }`
flush_always(color, b, o) == Append(o, Span(b, color))

\* the `flush` closure: push b as one span unless b is empty
flush(color, b, o) == IF b = <<>> THEN o ELSE Append(o, Span(b, color))

\* chars[i] (i is 0-based)
CharAt(s, k) == s[k + 1]

RECURSIVE SkipWhitespace(_, _)
\* while j < chars.len() && chars[j].is_whitespace() { j += 1 }
SkipWhitespace(s, j) ==
    IF j < Len(s) /\ is_whitespace(CharAt(s, j)) THEN SkipWhitespace(s, j + 1) ELSE j

\* the key lookahead without its whitespace loop
LookaheadKind_noSkip(s, k) ==
    IF k + 1 < Len(s) /\ CharAt(s, k + 1) = ":" THEN th.key ELSE th.string

\* the key lookahead after a closing quote at index k
LookaheadKind(s, k) ==
    LET j == SkipWhitespace(s, k + 1)
    IN IF j < Len(s) /\ CharAt(s, j) = ":" THEN th.key ELSE th.string

RECURSIVE NumberEnd_digitsOnly(_, _)
\* the number loop without `|| ".eE+-".contains(chars[i])`
NumberEnd_digitsOnly(s, k) ==
    IF k < Len(s) /\ is_ascii_digit(CharAt(s, k))
    THEN NumberEnd_digitsOnly(s, k + 1) ELSE k

RECURSIVE NumberEnd(_, _)
\* while i < chars.len() && (digit || ".eE+-".contains(chars[i])) { i += 1 }
NumberEnd(s, k) ==
    IF k < Len(s) /\ (is_ascii_digit(CharAt(s, k)) \/ InNumberTail(CharAt(s, k)))
    THEN NumberEnd(s, k + 1) ELSE k

\* the in-string branch dropping an escaped char instead of pushing it
StepInString_dropsEscaped(st) ==
    LET c == CharAt(st.src, st.i)
        b == Append(st.buf, c)
    IN IF st.escape
       THEN [st EXCEPT !.escape = FALSE, !.i = st.i + 1]
       ELSE IF c = BACKSLASH
       THEN [st EXCEPT !.buf = b, !.escape = TRUE, !.i = st.i + 1]
       ELSE IF c = QUOTE
       THEN [st EXCEPT !.buf = <<>>,
                       !.out = flush(LookaheadKind(st.src, st.i), b, st.out),
                       !.in_string = FALSE,
                       !.i = st.i + 1]
       ELSE [st EXCEPT !.buf = b, !.i = st.i + 1]

\* the in-string branch moving the cursor to where the key lookahead stopped
StepInString_consumesLookahead(st) ==
    LET c == CharAt(st.src, st.i)
        b == Append(st.buf, c)
    IN IF st.escape
       THEN [st EXCEPT !.buf = b, !.escape = FALSE, !.i = st.i + 1]
       ELSE IF c = BACKSLASH
       THEN [st EXCEPT !.buf = b, !.escape = TRUE, !.i = st.i + 1]
       ELSE IF c = QUOTE
       THEN [st EXCEPT !.buf = <<>>,
                       !.out = flush(LookaheadKind(st.src, st.i), b, st.out),
                       !.in_string = FALSE,
                       !.i = SkipWhitespace(st.src, st.i + 1)]
       ELSE [st EXCEPT !.buf = b, !.i = st.i + 1]

\* the in-string branch testing `c == '\\'` before `escape`
StepInString_backslashFirst(st) ==
    LET c == CharAt(st.src, st.i)
        b == Append(st.buf, c)
    IN IF c = BACKSLASH
       THEN [st EXCEPT !.buf = b, !.escape = TRUE, !.i = st.i + 1]
       ELSE IF st.escape
       THEN [st EXCEPT !.buf = b, !.escape = FALSE, !.i = st.i + 1]
       ELSE IF c = QUOTE
       THEN [st EXCEPT !.buf = <<>>,
                       !.out = flush(LookaheadKind(st.src, st.i), b, st.out),
                       !.in_string = FALSE,
                       !.i = st.i + 1]
       ELSE [st EXCEPT !.buf = b, !.i = st.i + 1]

\* `if in_string { ... continue; }`
StepInString(st) ==
    LET c == CharAt(st.src, st.i)
        b == Append(st.buf, c)
    IN IF st.escape
       THEN [st EXCEPT !.buf = b, !.escape = FALSE, !.i = st.i + 1]
       ELSE IF c = BACKSLASH
       THEN [st EXCEPT !.buf = b, !.escape = TRUE, !.i = st.i + 1]
       ELSE IF c = QUOTE
       THEN [st EXCEPT !.buf = <<>>,
                       !.out = flush(LookaheadKind(st.src, st.i), b, st.out),
                       !.in_string = FALSE,
                       !.i = st.i + 1]
       ELSE [st EXCEPT !.buf = b, !.i = st.i + 1]

\* the arm '"' without `buf.push(c)`
StepQuote_noPush(st) ==
    [st EXCEPT !.out = flush(th.default, st.buf, st.out),
               !.in_string = TRUE,
               !.buf = <<>>,
               !.i = st.i + 1]

\* arm '"'
StepQuote(st) ==
    [st EXCEPT !.out = flush(th.default, st.buf, st.out),
               !.in_string = TRUE,
               !.buf = <<CharAt(st.src, st.i)>>,
               !.i = st.i + 1]

\* the punctuation arm without its flush of the pending buffer
StepPunct_noFlush(st) ==
    [st EXCEPT !.out = Append(st.out, Span(<<CharAt(st.src, st.i)>>, th.punct)),
               !.i = st.i + 1]

\* arm ':' | '{' | '}' | '[' | ']' | ','
StepPunct(st) ==
    [st EXCEPT !.out = Append(flush(th.default, st.buf, st.out),
                              Span(<<CharAt(st.src, st.i)>>, th.punct)),
               !.buf = <<>>,
               !.i = st.i + 1]

\* arm _ if c.is_ascii_digit() || c == '-'
StepNumber(st) ==
    LET start == st.i
        end == NumberEnd(st.src, st.i + 1)
    IN [st EXCEPT !.out = Append(flush(th.default, st.buf, st.out),
                                 Span(SubSeq(st.src, start + 1, end), th.number)),
                  !.buf = <<>>,
                  !.i = end]

\* the guard `src[i..].starts_with(lit)`: slicing a str at a byte index that
\* is not a char boundary panics
GuardPanics(st) == ~ is_char_boundary(st.src, st.i)

GuardHolds(st, lit) ==
    /\ is_char_boundary(st.src, st.i)
    /\ starts_with(SliceFromByte(st.src, st.i), lit)

\* arms 't' / 'f' / 'n' when the guard holds
StepKeyword(st, lit, color) ==
    [st EXCEPT !.out = Append(flush(th.default, st.buf, st.out), Span(lit, color)),
               !.buf = <<>>,
               !.i = st.i + Len(lit)]

\* arm _ pushing each char as a span of its own
StepOther_eager(st) ==
    [st EXCEPT !.out = Append(flush(th.default, st.buf, st.out),
                              Span(<<CharAt(st.src, st.i)>>, th.default)),
               !.buf = <<>>,
               !.i = st.i + 1]

\* arm _
StepOther(st) ==
    [st EXCEPT !.buf = Append(st.buf, CharAt(st.src, st.i)), !.i = st.i + 1]

\* the literal whose arm pattern matches c, or <<>>
KeywordFor(c) ==
    IF c = "t" THEN TRUE_LIT ELSE IF c = "f" THEN FALSE_LIT
    ELSE IF c = "n" THEN NULL_LIT ELSE <<>>

KeywordColor(lit) == IF lit = NULL_LIT THEN th.null_ ELSE th.boolean

\* which arm of the loop body runs in state st
Arm(st) ==
    LET c == CharAt(st.src, st.i)
    IN IF st.in_string THEN "in_string"
       ELSE IF c = QUOTE THEN "quote"
       ELSE IF IsPunct(c) THEN "punct"
       ELSE IF is_ascii_digit(c) \/ c = "-" THEN "number"
       ELSE IF KeywordFor(c) # <<>> /\ GuardPanics(st) THEN "panic"
       ELSE IF KeywordFor(c) # <<>> /\ GuardHolds(st, KeywordFor(c)) THEN "keyword"
       ELSE "other"

\* one iteration of the loop body
ScanStep(st) ==
    LET a == Arm(st)
        lit == KeywordFor(CharAt(st.src, st.i))
    IN CASE a = "in_string" -> StepInString(st)
         [] a = "quote" -> StepQuote(st)
         [] a = "punct" -> StepPunct(st)
         [] a = "number" -> StepNumber(st)
         [] a = "panic" -> [st EXCEPT !.pc = "panic"]
         [] a = "keyword" -> StepKeyword(st, lit, KeywordColor(lit))
         [] OTHER -> StepOther(st)

\* the end of json_to_spans flushing an open string in the string colour
ScanFinish_openAsString(st) ==
    [st EXCEPT !.out = flush(IF st.in_string THEN th.string ELSE th.default,
                             st.buf, st.out),
               !.buf = <<>>,
               !.pc = "done"]

\* the end of json_to_spans without the final flush
ScanFinish_noFlush(st) == [st EXCEPT !.buf = <<>>, !.pc = "done"]

\* after the loop: flush(Kind::Default, ...); out
ScanFinish(st) ==
    [st EXCEPT !.out = flush(th.default, st.buf, st.out), !.buf = <<>>, !.pc = "done"]

\* locals at entry of json_to_spans
ScanInit(s) ==
    [src |-> s, i |-> 0, buf |-> <<>>, out |-> <<>>,
     in_string |-> FALSE, escape |-> FALSE, pc |-> "loop"]

RECURSIVE ScanRun(_)
\* the whole of json_to_spans from state st
ScanRun(st) ==
    IF st.pc # "loop" THEN st
    ELSE IF st.i < Len(st.src) THEN ScanRun(ScanStep(st))
    ELSE ScanFinish(st)

\* json_to_spans(src, th): final state (pc = "done" with out, or "panic")
json_to_spans(s) == ScanRun(ScanInit(s))

----------------------------------------------------------------------------
(* serde_json::from_str::<Value>, as rich_json_str and pretty_json_str     *)
(* call it.  A Value is a record tagged by t: "null", "bool", "num",       *)
(* "str", "arr" (v: sequence of Values) or "obj" (v: sequence of           *)
(* <<key, Value>>).  The texts parsed here hold integer literals only (no  *)
(* '0', fraction or exponent) and no \u escape.                            *)

EOF == "<eof>"

\* the byte at 0-based index p, or EOF
PeekAt(s, p) == IF p < Len(s) THEN CharAt(s, p) ELSE EOF

\* whitespace of the JSON grammar
IsJsonWs(c) == c \in {" ", "\n", "\t", "\r"}

RECURSIVE SkipJsonWs(_, _)
SkipJsonWs(s, p) == IF IsJsonWs(PeekAt(s, p)) THEN SkipJsonWs(s, p + 1) ELSE p

POk(v, p) == [ok |-> TRUE, val |-> v, pos |-> p]
PErr(code, p) == [ok |-> FALSE, err |-> code, pos |-> p]

RECURSIVE ParseIdent(_, _, _, _)
\* the rest of a literal name after its first letter
ParseIdent(s, p, rest, v) ==
    IF rest = <<>> THEN POk(v, p)
    ELSE IF PeekAt(s, p) = EOF THEN PErr("EOF while parsing a value", p)
    ELSE IF PeekAt(s, p) # Head(rest) THEN PErr("expected ident", p)
    ELSE ParseIdent(s, p + 1, Tail(rest), v)

\* the char an escape letter stands for, or EOF if it is no escape letter
Unescape(c) ==
    CASE c = QUOTE -> QUOTE
      [] c = BACKSLASH -> BACKSLASH
      [] c = "/" -> "/"
      [] c = "n" -> "\n"
      [] c = "t" -> "\t"
      [] c = "r" -> "\r"
      [] c = "f" -> "\f"
      [] c = "b" -> "U+0008"
      [] OTHER -> EOF

IsControl(c) == c \in {"\n", "\t", "\r", "\f", "U+0008"}

RECURSIVE ParseStrBody(_, _, _)
\* the chars of a string literal after its opening quote, decoded
ParseStrBody(s, p, acc) ==
    LET c == PeekAt(s, p)
    IN IF c = EOF THEN PErr("EOF while parsing a string", p)
       ELSE IF c = QUOTE THEN POk(acc, p + 1)
       ELSE IF c = BACKSLASH
       THEN IF PeekAt(s, p + 1) = EOF THEN PErr("EOF while parsing a string", p + 1)
            ELSE IF Unescape(PeekAt(s, p + 1)) = EOF THEN PErr("invalid escape", p + 1)
            ELSE ParseStrBody(s, p + 2, Append(acc, Unescape(PeekAt(s, p + 1))))
       ELSE IF IsControl(c)
       THEN PErr("control character found while parsing a string", p)
       ELSE ParseStrBody(s, p + 1, Append(acc, c))

DigitValue(c) ==
    CASE c = "0" -> 0 [] c = "1" -> 1 [] c = "2" -> 2 [] c = "3" -> 3
      [] c = "4" -> 4 [] c = "5" -> 5 [] c = "6" -> 6 [] c = "7" -> 7
      [] c = "8" -> 8 [] c = "9" -> 9

RECURSIVE ParseDigits(_, _, _)
\* the digits from p on, accumulated onto n
ParseDigits(s, p, n) ==
    IF is_ascii_digit(PeekAt(s, p))
    THEN ParseDigits(s, p + 1, 10 * n + DigitValue(PeekAt(s, p)))
    ELSE [n |-> n, pos |-> p]

\* an integer literal whose digits start at p
ParseInteger(s, p, negative) ==
    LET c == PeekAt(s, p)
    IN IF c = EOF THEN PErr("EOF while parsing a value", p)
       ELSE IF ~ is_ascii_digit(c) THEN PErr("invalid number", p)
       ELSE IF c = "0" /\ is_ascii_digit(PeekAt(s, p + 1)) THEN PErr("invalid number", p + 1)
       ELSE LET d == ParseDigits(s, p, 0)
            IN POk([t |-> "num", v |-> IF negative THEN 0 - d.n ELSE d.n], d.pos)

\* Map::insert: a key already present keeps its place and takes the new value
MapInsert(members, k, v) ==
    IF \E m \in 1..Len(members) : members[m][1] = k
    THEN [m \in 1..Len(members) |->
             IF members[m][1] = k THEN <<k, v>> ELSE members[m]]
    ELSE Append(members, <<k, v>>)

RECURSIVE ParseValue(_, _)
RECURSIVE ParseSeq(_, _, _, _)
RECURSIVE ParseMap(_, _, _, _)

\* the elements of an array after '[', up to and including ']'
ParseSeq(s, p, first, acc) ==
    LET q == SkipJsonWs(s, p)
        c == PeekAt(s, q)
        q2 == IF c = "," /\ ~ first THEN SkipJsonWs(s, q + 1) ELSE q
        r == ParseValue(s, q2)
    IN IF c = EOF THEN PErr("EOF while parsing a list", q)
       ELSE IF c = "]" THEN POk([t |-> "arr", v |-> acc], q + 1)
       ELSE IF ~ first /\ c # "," THEN PErr("expected comma or ]", q)
       ELSE IF PeekAt(s, q2) = "]" /\ ~ first THEN PErr("trailing comma", q2)
       ELSE IF ~ r.ok THEN r
       ELSE ParseSeq(s, r.pos, FALSE, Append(acc, r.val))

\* the members of an object after '{', up to and including '}'
ParseMap(s, p, first, acc) ==
    LET q == SkipJsonWs(s, p)
        c == PeekAt(s, q)
        q2 == IF c = "," /\ ~ first THEN SkipJsonWs(s, q + 1) ELSE q
        k == ParseStrBody(s, q2 + 1, <<>>)
        q3 == SkipJsonWs(s, k.pos)
        r == ParseValue(s, q3 + 1)
    IN IF c = EOF THEN PErr("EOF while parsing an object", q)
       ELSE IF c = "}" THEN POk([t |-> "obj", v |-> acc], q + 1)
       ELSE IF ~ first /\ c # "," THEN PErr("expected comma or }", q)
       ELSE IF PeekAt(s, q2) = EOF THEN PErr("EOF while parsing a value", q2)
       ELSE IF PeekAt(s, q2) = "}" THEN PErr("trailing comma", q2)
       ELSE IF PeekAt(s, q2) # QUOTE THEN PErr("key must be a string", q2)
       ELSE IF ~ k.ok THEN k
       ELSE IF PeekAt(s, q3) = EOF THEN PErr("EOF while parsing an object", q3)
       ELSE IF PeekAt(s, q3) # ":" THEN PErr("expected colon", q3)
       ELSE IF ~ r.ok THEN r
       ELSE ParseMap(s, r.pos, FALSE, MapInsert(acc, k.val, r.val))

\* one JSON value, after optional whitespace
ParseValue(s, p) ==
    LET q == SkipJsonWs(s, p)
        c == PeekAt(s, q)
        str == ParseStrBody(s, q + 1, <<>>)
    IN CASE c = EOF -> PErr("EOF while parsing a value", q)
         [] c = "n" -> ParseIdent(s, q + 1, Tail(NULL_LIT), [t |-> "null"])
         [] c = "t" -> ParseIdent(s, q + 1, Tail(TRUE_LIT), [t |-> "bool", v |-> TRUE])
         [] c = "f" -> ParseIdent(s, q + 1, Tail(FALSE_LIT), [t |-> "bool", v |-> FALSE])
         [] c = "-" -> ParseInteger(s, q + 1, TRUE)
         [] is_ascii_digit(c) -> ParseInteger(s, q, FALSE)
         [] c = QUOTE -> IF str.ok THEN POk([t |-> "str", v |-> str.val], str.pos) ELSE str
         [] c = "[" -> ParseSeq(s, q + 1, TRUE, <<>>)
         [] c = "{" -> ParseMap(s, q + 1, TRUE, <<>>)
         [] OTHER -> PErr("expected value", q)

\* serde_json::from_str::<Value>(s): one value, then only whitespace
from_str(s) ==
    LET r == ParseValue(s, 0)
    IN IF ~ r.ok THEN r
       ELSE IF PeekAt(s, SkipJsonWs(s, r.pos)) # EOF
       THEN PErr("trailing characters", SkipJsonWs(s, r.pos))
       ELSE r

\* Display of a serde_json::Error: its message (the position is left out)
ErrorDisplay(e) == <<e.err>>

----------------------------------------------------------------------------
(* serde_json::to_string_pretty: two-space indentation *)

RECURSIVE Indent(_)
Indent(n) == IF n = 0 THEN <<>> ELSE <<" ", " ">> \o Indent(n - 1)

RECURSIVE NatDigits(_)
\* decimal digits of a natural number
NatDigits(n) ==
    LET d == <<"0", "1", "2", "3", "4", "5", "6", "7", "8", "9">>[(n % 10) + 1]
    IN IF n < 10 THEN <<d>> ELSE Append(NatDigits(n \div 10), d)

IntText(n) == IF n < 0 THEN <<"-">> \o NatDigits(0 - n) ELSE NatDigits(n)

\* the escape of one char inside a string literal
EscapeChar(c) ==
    CASE c = QUOTE -> <<BACKSLASH, QUOTE>>
      [] c = BACKSLASH -> <<BACKSLASH, BACKSLASH>>
      [] c = "\n" -> <<BACKSLASH, "n">>
      [] c = "\t" -> <<BACKSLASH, "t">>
      [] c = "\r" -> <<BACKSLASH, "r">>
      [] c = "\f" -> <<BACKSLASH, "f">>
      [] c = "U+0008" -> <<BACKSLASH, "b">>
      [] OTHER -> <<c>>

RECURSIVE EscapeStr(_)
EscapeStr(s) == IF s = <<>> THEN <<>> ELSE EscapeChar(Head(s)) \o EscapeStr(Tail(s))

StrText(s) == <<QUOTE>> \o EscapeStr(s) \o <<QUOTE>>

RECURSIVE PrettyValue(_, _)
RECURSIVE PrettyItems(_, _, _, _)

\* the items of a non-empty array (isObj = FALSE) or object, from item k on
PrettyItems(items, k, level, isObj) ==
    IF k > Len(items) THEN <<>>
    ELSE (IF k = 1 THEN <<"\n">> ELSE <<",", "\n">>)
         \o Indent(level + 1)
         \o (IF isObj
             THEN StrText(items[k][1]) \o <<":", " ">>
                  \o PrettyValue(items[k][2], level + 1)
             ELSE PrettyValue(items[k], level + 1))
         \o PrettyItems(items, k + 1, level, isObj)

\* a Value written at nesting depth level
PrettyValue(v, level) ==
    CASE v.t = "null" -> NULL_LIT
      [] v.t = "bool" -> IF v.v THEN TRUE_LIT ELSE FALSE_LIT
      [] v.t = "num" -> IntText(v.v)
      [] v.t = "str" -> StrText(v.v)
      [] v.t = "arr" ->
            IF v.v = <<>> THEN <<"[", "]">>
            ELSE <<"[">> \o PrettyItems(v.v, 1, level, FALSE)
                 \o <<"\n">> \o Indent(level) \o <<"]">>
      [] v.t = "obj" ->
            IF v.v = <<>> THEN <<"{", "}">>
            ELSE <<"{">> \o PrettyItems(v.v, 1, level, TRUE)
                 \o <<"\n">> \o Indent(level) \o <<"}">>

\* serde_json::to_string_pretty(&v)
to_string_pretty(v) == PrettyValue(v, 0)

----------------------------------------------------------------------------
(* The entry points *)

ErrorColor == <<255, 100, 100>>

\* "❌ JSON inválido: " as one text (U+274C takes 3 bytes, U+00E1 takes 2)
DiagPrefix == <<"U+274C", " ", "J", "S", "O", "N", " ", "i", "n", "v", "U+00E1",
                "l", "i", "d", "o", ":", " ">>

\* format!("❌ JSON inválido: {e}\n\n")
DiagText(e) == DiagPrefix \o ErrorDisplay(e) \o <<"\n", "\n">>

\* outcome of a call: the returned value (the spans of a Rich text, or a
\* String), or a panic
Returned(v) == [status |-> "returned", value |-> v]
Panicked == [status |-> "panic", value |-> <<>>]

\* rich_json_pretty_str(pretty_src, theme)
rich_json_pretty_str(pretty_src) ==
    LET st == json_to_spans(pretty_src)
    IN IF st.pc = "panic" THEN Panicked ELSE Returned(st.out)

\* rich_json_value(&v)
rich_json_value(v) == rich_json_pretty_str(to_string_pretty(v))

\* rich_json_str highlighting the invalid text instead of passing it through
rich_json_str_scansFallback(s) ==
    LET r == from_str(s)
    IN IF r.ok THEN rich_json_value(r.val)
       ELSE LET st == json_to_spans(s)
            IN IF st.pc = "panic" THEN Panicked
               ELSE Returned(<<Span(DiagText(r), ErrorColor)>> \o st.out)

\* rich_json_str(s)
rich_json_str(s) ==
    LET r == from_str(s)
    IN IF r.ok THEN rich_json_value(r.val)
       ELSE Returned(<<Span(DiagText(r), ErrorColor), Span(s, ThemeDefault.default)>>)

\* pretty_json_str returning an empty String on a parse failure
pretty_json_str_dropsInvalid(s) ==
    LET r == from_str(s)
    IN IF r.ok THEN to_string_pretty(r.val) ELSE <<>>

\* pretty_json_str returning a diagnostic in front of an invalid text
pretty_json_str_marksInvalid(s) ==
    LET r == from_str(s)
    IN IF r.ok THEN to_string_pretty(r.val) ELSE DiagText(r) \o s

\* pretty_json_str(s)
pretty_json_str(s) ==
    LET r == from_str(s)
    IN IF r.ok THEN to_string_pretty(r.val) ELSE s

----------------------------------------------------------------------------
(* The application state (src/main.rs).  The header list, the body editor  *)
(* and the pretty flag are left out: the messages that change them change  *)
(* nothing else, and the handlers modelled here only copy them into the    *)
(* request.                                                                *)

\* the seed of PatchLiteApp::new
SavedRequests ==
    <<[name |-> "GET httpbin", method |-> "GET", url |-> "https://httpbin.org/get"],
      [name |-> "POST echo", method |-> "POST", url |-> "https://httpbin.org/post"]>>

\* the methods and urls the user picks or types
Methods == {"GET", "POST", "PATCH"}
Urls == {"https://httpbin.org/get", "https://httpbin.org/post", "https://example.com"}

\* `match r.method.as_str() { "POST" => ..., _ => HttpMethod::GET }`
MethodOf(name) ==
    IF name \in {"POST", "PUT", "DELETE", "PATCH", "HEAD", "OPTIONS"} THEN name ELSE "GET"

\* PatchLiteApp::new
AppNew ==
    /\ selected = 0
    /\ method = MethodOf(SavedRequests[1].method)
    /\ url = SavedRequests[1].url
    /\ response = <<>>
    /\ in_flight = FALSE
    /\ last_error = <<>>
    /\ pending = <<>>
    /\ msg = "none"

----------------------------------------------------------------------------
(* HttpRequest::send (src/request.rs).  An Option is <<>> for None and     *)
(* <<v>> for Some(v); the method is "None" or the name of an HttpMethod.   *)
(* The header map is left out: every arm passes it on unchanged.           *)

\* the credentials of a request on the wire
NoCredentials == [scheme |-> "none", user |-> "", secret |-> ""]
basic_auth(user, password) == [scheme |-> "Basic", user |-> user, secret |-> password]
bearer_auth(token) == [scheme |-> "Bearer", user |-> "", secret |-> token]

\* HttpRequest::default()
HttpRequestDefault ==
    [method |-> "None", url |-> "", body |-> <<>>, auth |-> "None",
     token |-> "", username |-> "", password |-> ""]

\* no call of send yet
NotSent ==
    [status |-> "not called", verb |-> "", url |-> "", credentials |-> NoCredentials,
     content_type |-> <<>>, body |-> <<>>]

NoRequest ==
    /\ request = HttpRequestDefault
    /\ wire = NotSent

\* `match self.auth { ... }` of the GET, POST, PUT and DELETE arms
AuthOwn(req) ==
    CASE req.auth = "None" -> NoCredentials
      [] req.auth = "Bearer" -> bearer_auth(req.token)
      [] req.auth = "Basic" -> basic_auth(req.username, req.password)

\* `match self.auth { ... }` of the PATCH arm
AuthPatch(req) ==
    CASE req.auth = "None" -> NoCredentials
      [] req.auth = "Bearer" -> bearer_auth(req.token)
      [] req.auth = "Basic" -> basic_auth("admin", "good password")

\* str::trim().is_empty()
IsBlank(text) == \A k \in 1..Len(text) : is_whitespace(text[k])

\* the body of the POST arm: sent when it is not blank and is valid JSON
BodyPost(req) ==
    IF req.body # <<>> /\ ~ IsBlank(req.body[1]) /\ from_str(req.body[1]).ok
    THEN req.body
    ELSE <<>>

\* the body of the PUT, PATCH and DELETE arms: sent when it is not empty
BodyIfAny(req) ==
    IF req.body # <<>> /\ req.body[1] # <<>> THEN req.body ELSE <<>>

Built(verb, address, credentials, content_type, body) ==
    [status |-> "sent", verb |-> verb, url |-> address, credentials |-> credentials,
     content_type |-> content_type, body |-> body]

\* HttpRequest::send, up to the request it hands to the client
send(req) ==
    CASE req.method = "GET" ->
            Built("GET", req.url, AuthOwn(req), <<>>, <<>>)
      [] req.method = "POST" ->
            Built("POST", req.url, AuthOwn(req), <<"application/json">>, BodyPost(req))
      [] req.method = "PUT" ->
            Built("PUT", req.url, AuthOwn(req), <<>>, BodyIfAny(req))
      [] req.method = "PATCH" ->
            Built("PATCH", req.url, AuthPatch(req), <<>>, BodyIfAny(req))
      [] req.method = "DELETE" ->
            Built("DELETE", req.url, AuthOwn(req), <<>>, BodyIfAny(req))
      [] req.method = "None" ->
            Built("GET", "http://url_invalida###", NoCredentials, <<>>, <<>>)

----------------------------------------------------------------------------
(* Inputs *)

Chunks ==
    { <<QUOTE>>, <<BACKSLASH>>, <<":">>, <<" ">>, <<"1">>, <<"-">>, <<"e">>,
      <<"t">>, TRUE_LIT, FALSE_LIT, NULL_LIT, <<E2>>, <<E4>> }

RECURSIVE Flatten(_)
Flatten(ss) == IF ss = <<>> THEN <<>> ELSE Head(ss) \o Flatten(Tail(ss))

Inputs == { Flatten(cs) : cs \in UNION { [1..n -> Chunks] : n \in 0..MaxChunks } }

----------------------------------------------------------------------------
(* The scanner as a state machine *)

NotCalled == [status |-> "not called", value |-> <<>>]

State ==
    [src |-> src, i |-> i, buf |-> buf, out |-> out,
     in_string |-> in_string, escape |-> escape, pc |-> pc]

Install(st) ==
    /\ src' = st.src
    /\ i' = st.i
    /\ buf' = st.buf
    /\ out' = st.out
    /\ in_string' = st.in_string
    /\ escape' = st.escape
    /\ pc' = st.pc
    /\ UNCHANGED doc_vars
    /\ UNCHANGED app_vars
    /\ UNCHANGED send_vars

Looping == pc = "loop" /\ i < Len(src)

Init ==
    /\ src \in Inputs
    /\ i = 0
    /\ buf = <<>>
    /\ out = <<>>
    /\ in_string = FALSE
    /\ escape = FALSE
    /\ pc = "loop"
    /\ rich = NotCalled
    /\ pretty = NotCalled
    /\ AppNew
    /\ NoRequest

InString == Looping /\ Arm(State) = "in_string" /\ Install(StepInString(State))

OpenQuote == Looping /\ Arm(State) = "quote" /\ Install(StepQuote(State))

Punct == Looping /\ Arm(State) = "punct" /\ Install(StepPunct(State))

Number == Looping /\ Arm(State) = "number" /\ Install(StepNumber(State))

Keyword ==
    /\ Looping
    /\ Arm(State) = "keyword"
    /\ LET lit == KeywordFor(CharAt(src, i))
       IN Install(StepKeyword(State, lit, KeywordColor(lit)))

GuardPanic ==
    /\ Looping
    /\ Arm(State) = "panic"
    /\ pc' = "panic"
    /\ UNCHANGED <<src, i, buf, out, in_string, escape, rich, pretty>>
    /\ UNCHANGED app_vars
    /\ UNCHANGED send_vars

Other == Looping /\ Arm(State) = "other" /\ Install(StepOther(State))

Finish == pc = "loop" /\ i >= Len(src) /\ Install(ScanFinish(State))

Next ==
    \/ InString
    \/ OpenQuote
    \/ Punct
    \/ Number
    \/ Keyword
    \/ GuardPanic
    \/ Other
    \/ Finish

Spec == Init /\ [][Next]_vars

\* the loop of json_to_spans runs on until it returns or panics
SpecFair == Spec /\ WF_vars(Next)

----------------------------------------------------------------------------
(* Calls of the entry points on a text *)

DocChunks ==
    { <<"[">>, <<"]">>, <<"{">>, <<"}">>, <<",">>, <<" ">>, <<"1">>, <<"-">>,
      <<QUOTE>>, <<QUOTE, "k", QUOTE>>, <<QUOTE, "k", QUOTE, ":">>, TRUE_LIT }

DocInputs == { Flatten(cs) : cs \in UNION { [1..n -> DocChunks] : n \in 0..MaxChunks } }

InitDoc ==
    /\ src \in DocInputs
    /\ i = 0
    /\ buf = <<>>
    /\ out = <<>>
    /\ in_string = FALSE
    /\ escape = FALSE
    /\ pc = "loop"
    /\ rich = NotCalled
    /\ pretty = NotCalled
    /\ AppNew
    /\ NoRequest

\* rich_json_str(src), arm Ok(v)
RichJsonStrOk ==
    /\ rich = NotCalled
    /\ from_str(src).ok
    /\ rich' = rich_json_str(src)
    /\ UNCHANGED <<src, pretty>>
    /\ UNCHANGED scan_vars
    /\ UNCHANGED app_vars
    /\ UNCHANGED send_vars

\* rich_json_str(src), arm Err(e)
RichJsonStrErr ==
    /\ rich = NotCalled
    /\ ~ from_str(src).ok
    /\ rich' = rich_json_str(src)
    /\ UNCHANGED <<src, pretty>>
    /\ UNCHANGED scan_vars
    /\ UNCHANGED app_vars
    /\ UNCHANGED send_vars

\* pretty_json_str(src), arm Ok(v)
PrettyJsonStrOk ==
    /\ pretty = NotCalled
    /\ from_str(src).ok
    /\ pretty' = Returned(pretty_json_str(src))
    /\ UNCHANGED <<src, rich>>
    /\ UNCHANGED scan_vars
    /\ UNCHANGED app_vars
    /\ UNCHANGED send_vars

\* pretty_json_str(src), arm Err(_)
PrettyJsonStrErr ==
    /\ pretty = NotCalled
    /\ ~ from_str(src).ok
    /\ pretty' = Returned(pretty_json_str(src))
    /\ UNCHANGED <<src, rich>>
    /\ UNCHANGED scan_vars
    /\ UNCHANGED app_vars
    /\ UNCHANGED send_vars

NextDoc ==
    \/ RichJsonStrOk
    \/ RichJsonStrErr
    \/ PrettyJsonStrOk
    \/ PrettyJsonStrErr

SpecDoc == InitDoc /\ [][NextDoc]_vars

----------------------------------------------------------------------------
(* PatchLiteApp::update, one message at a time.  The Send button is        *)
(* disabled while in_flight, but a SendClicked produced before the view    *)
(* was redrawn can still arrive; RequestDone arrives only for a request    *)
(* that was launched.                                                      *)

InitApp ==
    /\ src = <<>>
    /\ i = 0
    /\ buf = <<>>
    /\ out = <<>>
    /\ in_string = FALSE
    /\ escape = FALSE
    /\ pc = "loop"
    /\ rich = NotCalled
    /\ pretty = NotCalled
    /\ AppNew
    /\ NoRequest

\* Msg::SidebarSelect(k); msg tells a k that names no request apart, since
\* `if let Some(r) = self.requests.get(i)` then changes nothing
SidebarSelect ==
    \E k \in 0..Len(SavedRequests) :
        /\ msg' = IF k < Len(SavedRequests) THEN "SidebarSelect" ELSE "SidebarSelect(none)"
        /\ IF k < Len(SavedRequests)
           THEN /\ selected' = k
                /\ method' = MethodOf(SavedRequests[k + 1].method)
                /\ url' = SavedRequests[k + 1].url
                /\ response' = <<>>
           ELSE UNCHANGED <<selected, method, url, response>>
        /\ UNCHANGED <<in_flight, last_error, pending, src, rich, pretty>>
        /\ UNCHANGED scan_vars
        /\ UNCHANGED send_vars

\* Msg::MethodChanged(m)
MethodChanged ==
    \E m \in Methods :
        /\ msg' = "MethodChanged"
        /\ method' = m
        /\ UNCHANGED <<selected, url, response, in_flight, last_error, pending>>
        /\ UNCHANGED <<src, rich, pretty>>
        /\ UNCHANGED scan_vars
        /\ UNCHANGED send_vars

\* Msg::UrlChanged(u)
UrlChanged ==
    \E u \in Urls :
        /\ msg' = "UrlChanged"
        /\ url' = u
        /\ UNCHANGED <<selected, method, response, in_flight, last_error, pending>>
        /\ UNCHANGED <<src, rich, pretty>>
        /\ UNCHANGED scan_vars
        /\ UNCHANGED send_vars

\* Msg::SendClicked without `if self.in_flight { return Command::none(); }`
SendClicked_noGuard ==
    /\ msg' = "SendClicked"
    /\ in_flight' = TRUE
    /\ response' = <<>>
    /\ last_error' = <<>>
    /\ pending' = Append(pending, [method |-> method, url |-> url])
    /\ UNCHANGED <<selected, method, url, src, rich, pretty>>
    /\ UNCHANGED scan_vars
    /\ UNCHANGED send_vars

\* Msg::SendClicked without `self.last_error = None;`
SendClicked_keepsError ==
    /\ msg' = "SendClicked"
    /\ IF in_flight
       THEN UNCHANGED <<in_flight, response, last_error, pending>>
       ELSE /\ in_flight' = TRUE
            /\ response' = <<>>
            /\ UNCHANGED last_error
            /\ pending' = Append(pending, [method |-> method, url |-> url])
    /\ UNCHANGED <<selected, method, url, src, rich, pretty>>
    /\ UNCHANGED scan_vars
    /\ UNCHANGED send_vars

\* Msg::SendClicked
SendClicked ==
    /\ msg' = "SendClicked"
    /\ IF in_flight
       THEN UNCHANGED <<in_flight, response, last_error, pending>>
       ELSE /\ in_flight' = TRUE
            /\ response' = <<>>
            /\ last_error' = <<>>
            /\ pending' = Append(pending, [method |-> method, url |-> url])
    /\ UNCHANGED <<selected, method, url, src, rich, pretty>>
    /\ UNCHANGED scan_vars
    /\ UNCHANGED send_vars

\* the ResponseView that send_request builds for a request: the reply of the
\* server, told apart here by the request that it answers
ResponseView(req) == [method |-> req.method, url |-> req.url]

\* the sequence s without its element k
RemoveAt(s, k) == SubSeq(s, 1, k - 1) \o SubSeq(s, k + 1, Len(s))

\* Msg::RequestDone(res), for a launched request that has completed
RequestDone ==
    \E k \in 1..Len(pending), ok \in BOOLEAN :
        /\ msg' = "RequestDone"
        /\ pending' = RemoveAt(pending, k)
        /\ in_flight' = FALSE
        /\ IF ok
           THEN response' = <<ResponseView(pending[k])>> /\ UNCHANGED last_error
           ELSE last_error' = <<"Request error">> /\ UNCHANGED response
        /\ UNCHANGED <<selected, method, url, src, rich, pretty>>
        /\ UNCHANGED scan_vars
        /\ UNCHANGED send_vars

NextApp ==
    \/ SidebarSelect
    \/ MethodChanged
    \/ UrlChanged
    \/ SendClicked
    \/ RequestDone

SpecApp == InitApp /\ [][NextApp]_vars

----------------------------------------------------------------------------
(* One call of HttpRequest::send on a request drawn from small sets.       *)

SendMethods == {"None", "GET", "POST", "PUT", "PATCH", "DELETE"}
Auths == {"None", "Basic", "Bearer"}
Usernames == {"admin", "alice"}
Passwords == {"good password", "secret"}
Tokens == {"", "tok"}
Bodies == {<<>>, << <<>> >>, << <<" ">> >>, << <<"1">> >>, << <<"t">> >>}

Requests ==
    [method : SendMethods, url : Urls, body : Bodies, auth : Auths,
     token : Tokens, username : Usernames, password : Passwords]

InitSend ==
    /\ src = <<>>
    /\ i = 0
    /\ buf = <<>>
    /\ out = <<>>
    /\ in_string = FALSE
    /\ escape = FALSE
    /\ pc = "loop"
    /\ rich = NotCalled
    /\ pretty = NotCalled
    /\ AppNew
    /\ request \in Requests
    /\ wire = NotSent

\* request.send()
Send ==
    /\ wire = NotSent
    /\ wire' = send(request)
    /\ UNCHANGED <<request, src, rich, pretty>>
    /\ UNCHANGED scan_vars
    /\ UNCHANGED app_vars

NextSend == Send

SpecSend == InitSend /\ [][NextSend]_vars

----------------------------------------------------------------------------
(* Properties of json_to_spans *)

RECURSIVE ConcatText(_)
\* the texts of a span sequence, concatenated in order
ConcatText(o) == IF o = <<>> THEN <<>> ELSE Head(o).text \o ConcatText(Tail(o))

\* the part of the text from the 0-based char index k on
CharsFrom(s, k) == SubSeq(s, k + 1, Len(s))

IsLast(o, run) == o # <<>> /\ o[Len(o)] = run

\* C1: when json_to_spans returns, the texts of the returned spans,
\* concatenated in order, are exactly the input text.
C1_RoundTrip == pc = "done" => ConcatText(out) = src

\* C2: no step of json_to_spans panics, whatever the input text.
C2_NeverFails == pc # "panic"

\* C3: no span emitted by json_to_spans has an empty text.
C3_NoEmptyRun == \A k \in 1..Len(out) : out[k].text # <<>>

\* C3 witness: a returned output of two spans pushed directly, one after
\* the other, so that the flush between them found an empty buffer.
C3_Witness ==
    /\ pc = "done"
    /\ Len(out) = 2
    /\ out[1].color = th.punct
    /\ out[2].color = th.punct

\* the first non-whitespace char after 0-based index k is ':'
ColonFollows(s, k) ==
    \E j \in (k + 1)..(Len(s) - 1) :
        /\ CharAt(s, j) = ":"
        /\ \A m \in (k + 1)..(j - 1) : is_whitespace(CharAt(s, m))

\* the step closes a string literal
ClosesString == in_string /\ ~ in_string'

\* C4: when a string closes, its span is coloured as a key if and only if
\* the first non-whitespace char after the closing quote is ':', and as a
\* string otherwise (also when the text ends first).
C4_KeyDetection ==
    [][ClosesString =>
          /\ Len(out') = Len(out) + 1
          /\ out'[Len(out')].color =
                 (IF ColonFollows(src, i) THEN th.key ELSE th.string)]_vars

\* C4 witness: a string was closed and coloured as a key although
\* whitespace separates its closing quote from the ':'.
C4_Witness ==
    /\ out # <<>>
    /\ out[1].color = th.key
    /\ Len(src) > Len(out[1].text)
    /\ is_whitespace(CharAt(src, Len(out[1].text)))

RECURSIVE TrailingBackslashes(_)
\* number of consecutive backslashes at the end of a text
TrailingBackslashes(s) ==
    IF s # <<>> /\ s[Len(s)] = BACKSLASH
    THEN 1 + TrailingBackslashes(SubSeq(s, 1, Len(s) - 1))
    ELSE 0

\* C5: inside a string a '"' closes the string if and only if it is
\* preceded by an even number of consecutive backslashes within the
\* string; the closed string, from its opening quote to this quote, is
\* emitted as one span, and an escaped quote emits nothing.
C5_EscapeHandling ==
    [][(in_string /\ pc = "loop" /\ i < Len(src) /\ CharAt(src, i) = QUOTE) =>
          LET even == TrailingBackslashes(Tail(buf)) % 2 = 0
          IN /\ escape = ~ even
             /\ in_string' = ~ even
             /\ even => /\ Len(out') = Len(out) + 1
                        /\ out'[Len(out')].text = Append(buf, QUOTE)
                        /\ buf' = <<>>
             /\ ~ even => out' = out /\ buf' = Append(buf, QUOTE)]_vars

\* C5 witness: the literal "\"" was returned as one string span.
C5_Witness ==
    /\ pc = "done"
    /\ out = <<Span(<<QUOTE, BACKSLASH, QUOTE, QUOTE>>, th.string)>>

\* the step runs the number arm
MeetsNumberStart ==
    /\ pc = "loop"
    /\ i < Len(src)
    /\ ~ in_string
    /\ (is_ascii_digit(CharAt(src, i)) \/ CharAt(src, i) = "-")

InNumberSet(c) == is_ascii_digit(c) \/ c \in {".", "e", "E", "+", "-"}

\* C6: outside a string, at a digit or '-', one number span is emitted that
\* starts at that char and extends over the maximal following run of chars
\* of {0-9 . e E + -}; the char after the span is not in that set.
C6_NumberRun ==
    [][MeetsNumberStart =>
          /\ i' > i
          /\ i' <= Len(src)
          /\ IsLast(out', Span(SubSeq(src, i + 1, i'), th.number))
          /\ \A m \in (i + 1)..(i' - 1) : InNumberSet(CharAt(src, m))
          /\ i' < Len(src) => ~ InNumberSet(CharAt(src, i'))
          /\ buf' = <<>>]_vars

\* C6 witness: a number span of three chars was emitted and a char that is
\* not a number char follows it.
C6_Witness ==
    /\ out # <<>>
    /\ out[1].color = th.number
    /\ Len(out[1].text) = 3
    /\ Len(src) > 3

\* the chars at the cursor spell lit, outside a string
SpellsAtCursor(lit) ==
    /\ pc = "loop"
    /\ i < Len(src)
    /\ ~ in_string
    /\ starts_with(CharsFrom(src, i), lit)

\* the step emits lit as one span of the colour and moves the cursor past it
EmitsKeyword(lit, color) ==
    /\ out' = Append(flush(th.default, buf, out), Span(lit, color))
    /\ i' = i + Len(lit)
    /\ buf' = <<>>

\* C7: outside a string, wherever the chars at the cursor spell true, false
\* or null, the pending buffer is flushed, the literal is emitted as one
\* span (boolean or null colour) and the cursor advances by its length;
\* and a keyword span is emitted only where the chars at the cursor spell it.
C7_Keywords ==
    [][/\ \A lit \in {TRUE_LIT, FALSE_LIT, NULL_LIT} :
            SpellsAtCursor(lit) => EmitsKeyword(lit, KeywordColor(lit))
       /\ (/\ Len(out') > Len(out)
           /\ out'[Len(out')].color \in {th.boolean, th.null_})
          => \E lit \in {TRUE_LIT, FALSE_LIT, NULL_LIT} :
                 SpellsAtCursor(lit) /\ out'[Len(out')].text = lit]_vars

\* C8: json_to_spans returns an empty sequence exactly when the input is
\* empty.
C8_EmptyInput == pc = "done" => (out = <<>> <=> src = <<>>)

\* C8 witness: the scan of the empty text has returned.
C8_Witness == pc = "done" /\ src = <<>> /\ out = <<>>

\* C13: every iteration of the main loop moves the cursor forward by at
\* least one, and the scan eventually reaches a cursor at or past the end
\* of the text.
C13_Termination ==
    /\ [][(pc = "loop" /\ pc' = "loop") => i' > i]_vars
    /\ <>(i >= Len(src))

\* the scan is at its end, inside a string that was never closed
EndsInsideString == pc = "loop" /\ i >= Len(src) /\ in_string

\* C14: when the text ends inside an unterminated string, the fragment from
\* the opening quote to the end of the text is emitted as exactly one last
\* span, in the default colour, and the scan returns.
C14_UnterminatedString ==
    [][EndsInsideString =>
          /\ pc' = "done"
          /\ buf # <<>>
          /\ Head(buf) = QUOTE
          /\ buf = CharsFrom(src, Len(src) - Len(buf))
          /\ out' = Append(out, Span(buf, th.default))
          /\ th.default \notin {th.string, th.key}]_vars

\* C14 witness: a scan has returned inside a string that was opened after
\* other spans were emitted.
C14_Witness ==
    /\ pc = "done"
    /\ in_string
    /\ Len(out) >= 2
    /\ Len(out[Len(out)].text) >= 2

\* the step handles one char inside a string
StepsInsideString == pc = "loop" /\ i < Len(src) /\ in_string

\* C15: inside a string every char, whatever it is, is appended to the
\* buffer and nothing is emitted, until the closing quote: then the whole
\* literal with both quotes is emitted as exactly one span, coloured as a
\* key or as a string.
C15_OpaqueString ==
    [][StepsInsideString =>
          /\ i' = i + 1
          /\ pc' = "loop"
          /\ IF in_string'
             THEN out' = out /\ buf' = Append(buf, CharAt(src, i))
             ELSE /\ CharAt(src, i) = QUOTE
                  /\ Head(buf) = QUOTE
                  /\ buf' = <<>>
                  /\ Len(out') = Len(out) + 1
                  /\ SubSeq(out', 1, Len(out)) = out
                  /\ out'[Len(out')].text = Append(buf, QUOTE)
                  /\ out'[Len(out')].color \in {th.key, th.string}]_vars

\* C15 witness: a string holding an escaped char and a keyword, punctuation
\* or number char was returned as one span.
C15_Witness ==
    /\ pc = "done"
    /\ Len(out) = 1
    /\ out[1].color = th.string
    /\ \E k \in 2..(Len(out[1].text) - 1) :
           /\ out[1].text[k] = BACKSLASH
           /\ out[1].text[k + 1] \in {":", "1", "-", "t", QUOTE}

\* the step handles a punctuation char outside a string
MeetsPunct ==
    /\ pc = "loop"
    /\ i < Len(src)
    /\ ~ in_string
    /\ CharAt(src, i) \in {"{", "}", "[", "]", ",", ":"}

\* C16: outside a string each of { } [ ] , : first flushes the pending
\* buffer as a default span and is then emitted as a punctuation span of its
\* own; a punctuation span always holds exactly one char.
C16_Punctuation ==
    [][/\ MeetsPunct =>
            /\ out' = (IF buf = <<>> THEN out ELSE Append(out, Span(buf, th.default)))
                      \o <<Span(<<CharAt(src, i)>>, th.punct)>>
            /\ buf' = <<>>
            /\ i' = i + 1
       /\ \A k \in 1..Len(out') :
            out'[k].color = th.punct => Len(out'[k].text) = 1]_vars

\* C16 witness: a default span, then two punctuation spans next to each
\* other, were returned.
C16_Witness ==
    /\ pc = "done"
    /\ Len(out) = 3
    /\ out[1].color = th.default
    /\ out[2].color = th.punct
    /\ out[3].color = th.punct

IsPrefix(a, b) == Len(a) <= Len(b) /\ SubSeq(b, 1, Len(a)) = a

\* C17: the key lookahead is a peek: the step that closes a string moves
\* the cursor by exactly one, past the quote, and emits only the string;
\* and on every step the spans emitted before remain, in order, the first
\* spans of the output.
C17_LookaheadPeek ==
    [][/\ IsPrefix(out, out')
       /\ ClosesString =>
            /\ i' = i + 1
            /\ buf' = <<>>
            /\ out' = Append(out, out'[Len(out')])
            /\ out'[Len(out')].text = Append(buf, QUOTE)]_vars

\* C17 witness: after a key was recognised across whitespace, that
\* whitespace came out as a default span and the ':' as punctuation.
C17_Witness ==
    /\ pc = "done"
    /\ Len(out) = 3
    /\ out[1].color = th.key
    /\ out[2] = Span(<<" ">>, th.default)
    /\ out[3] = Span(<<":">>, th.punct)

BothDefault(k) == out[k].color = th.default /\ out[k + 1].color = th.default

\* C18 as stated: no two consecutive spans of the output are both default
\* spans.
C18_DefaultMaximal == \A k \in 1..(Len(out) - 1) : ~ BothDefault(k)

\* C18 as amended: two consecutive spans are both default spans only when
\* the second is the last span and is the fragment of an unterminated
\* string, flushed at the end of the text.
C18_DefaultMaximalButOpenString ==
    \A k \in 1..(Len(out) - 1) :
        BothDefault(k) =>
            /\ k + 1 = Len(out)
            /\ pc = "done"
            /\ in_string
            /\ Head(out[k + 1].text) = QUOTE

\* C18 witness: a returned output of at least three spans ending with a
\* default span and the fragment of an unterminated string.
C18_Witness ==
    /\ pc = "done"
    /\ Len(out) >= 3
    /\ out[Len(out) - 2].color # th.default
    /\ BothDefault(Len(out) - 1)

\* C19: at every iteration boundary the cursor is within 0..length, and
\* the emitted texts followed by the buffer are the first i chars of the
\* text.
C19_LoopInvariant ==
    pc = "loop" =>
        /\ 0 <= i
        /\ i <= Len(src)
        /\ ConcatText(out) \o buf = SubSeq(src, 1, i)

\* C24: at every iteration boundary of the scan, escape is set only inside a
\* string; inside a string the buffer is non-empty and starts with the
\* opening quote; outside a string the buffer holds no quote, no punctuation
\* character, no ASCII digit and no '-'.
C24_FlagsAndBuffer ==
    pc = "loop" =>
        /\ escape => in_string
        /\ in_string => (buf # <<>> /\ Head(buf) = QUOTE)
        /\ ~ in_string =>
              \A k \in 1..Len(buf) :
                  /\ buf[k] # QUOTE
                  /\ ~ IsPunct(buf[k])
                  /\ ~ is_ascii_digit(buf[k])
                  /\ buf[k] # "-"

\* C24 witness: the scan stands inside a string right after a backslash, and
\* its output so far ends with a number, so the buffer was emptied of digits
\* before the string began.
C24_Witness ==
    /\ pc = "loop"
    /\ in_string
    /\ escape
    /\ Len(buf) >= 2
    /\ out # <<>>
    /\ out[Len(out)].color = th.number

\* C24 witness outside a string: default text is pending after a closed
\* string.
C24_WitnessOutside ==
    /\ pc = "loop"
    /\ ~ in_string
    /\ buf # <<>>
    /\ out # <<>>
    /\ out[Len(out)].color = th.string

----------------------------------------------------------------------------
(* Properties of rich_json_str and pretty_json_str *)

\* sub occurs in text as a contiguous, non-empty part
Embeds(text, sub) ==
    /\ sub # <<>>
    /\ \E k \in 0..(Len(text) - Len(sub)) : SubSeq(text, k + 1, k + Len(sub)) = sub

\* C9: when the text does not parse as JSON, rich_json_str returns exactly
\* two spans: first a diagnostic in the warning colour that embeds the
\* parser's error description, then the whole original text, unchanged and
\* unscanned, in the theme's default colour.
C9_InvalidFallback ==
    (rich # NotCalled /\ ~ from_str(src).ok) =>
        /\ rich.status = "returned"
        /\ Len(rich.value) = 2
        /\ rich.value[1].color = ErrorColor
        /\ Embeds(rich.value[1].text, ErrorDisplay(from_str(src)))
        /\ rich.value[2] = Span(src, ThemeDefault.default)

\* C9 witness: rich_json_str was called on an invalid text that the scanner
\* would split into several spans.
C9_Witness ==
    /\ rich # NotCalled
    /\ ~ from_str(src).ok
    /\ Len(src) >= 2
    /\ src[1] = "{"
    /\ Len(json_to_spans(src).out) >= 2

RECURSIVE CountSpaces(_, _)
\* number of consecutive spaces of t from the 1-based position p on
CountSpaces(t, p) == IF p <= Len(t) /\ t[p] = " " THEN 1 + CountSpaces(t, p + 1) ELSE 0

IsOpen(c) == c \in {"[", "{"}
IsClose(c) == c \in {"]", "}"}

RECURSIVE WellIndentedFrom(_, _, _, _, _)
\* t, read from position p at nesting depth, is laid out canonically: a
\* line break after every opening bracket of a non-empty container and
\* after every comma, each line indented by two spaces per nesting level,
\* one space after a colon, and no other whitespace outside strings
WellIndentedFrom(t, p, depth, inStr, esc) ==
    IF p > Len(t) THEN depth = 0 /\ ~ inStr
    ELSE LET c == t[p]
             nxt == IF p < Len(t) THEN t[p + 1] ELSE EOF
             n == CountSpaces(t, p + 1)
             q == p + 1 + n
         IN IF inStr
            THEN WellIndentedFrom(t, p + 1, depth, esc \/ c # QUOTE, ~ esc /\ c = BACKSLASH)
            ELSE CASE c = QUOTE -> WellIndentedFrom(t, p + 1, depth, TRUE, FALSE)
                   [] IsOpen(c) ->
                        /\ nxt = "\n" \/ IsClose(nxt)
                        /\ WellIndentedFrom(t, p + 1, depth + 1, FALSE, FALSE)
                   [] IsClose(c) ->
                        /\ depth > 0
                        /\ WellIndentedFrom(t, p + 1, depth - 1, FALSE, FALSE)
                   [] c = "," ->
                        /\ nxt = "\n"
                        /\ WellIndentedFrom(t, p + 1, depth, FALSE, FALSE)
                   [] c = ":" ->
                        /\ n = 1
                        /\ q <= Len(t)
                        /\ WellIndentedFrom(t, q, depth, FALSE, FALSE)
                   [] c = "\n" ->
                        /\ q <= Len(t)
                        /\ n = 2 * (IF IsClose(t[q]) THEN depth - 1 ELSE depth)
                        /\ WellIndentedFrom(t, q, depth, FALSE, FALSE)
                   [] c = " " -> FALSE
                   [] OTHER -> WellIndentedFrom(t, p + 1, depth, FALSE, FALSE)

WellIndented(t) == WellIndentedFrom(t, 1, 0, FALSE, FALSE)

\* C10: pretty_json_str always returns: for a text that parses as JSON, the
\* canonical indented text of the parsed value (it parses to the same value
\* and is laid out canonically); for any other text, the text unchanged.
C10_PrettyPassThrough ==
    /\ pretty.status \in {"not called", "returned"}
    /\ pretty.status = "returned" =>
          IF from_str(src).ok
          THEN /\ WellIndented(pretty.value)
               /\ from_str(pretty.value).ok
               /\ from_str(pretty.value).val = from_str(src).val
          ELSE pretty.value = src

\* C10 witness: pretty_json_str returned an indented text, different from
\* its input, for an object with a member.
C10_Witness ==
    /\ pretty.status = "returned"
    /\ from_str(src).ok
    /\ pretty.value # src
    /\ Embeds(pretty.value, <<"{", "\n", " ", " ", QUOTE>>)
    /\ Embeds(pretty.value, <<":", " ">>)

\* pretty_json_str returned its input unchanged on a parse failure
C10_WitnessInvalid ==
    /\ pretty.status = "returned"
    /\ ~ from_str(src).ok
    /\ src # <<>>
    /\ pretty.value = src

\* C11: normalizing is idempotent: the canonical text of a text that parses
\* parses again and has itself as canonical text; and pretty_json_str
\* applied to its own result returns that result, for valid and invalid
\* texts alike.
C11_Idempotent ==
    pretty.status = "returned" =>
        /\ from_str(src).ok =>
              /\ from_str(pretty.value).ok
              /\ to_string_pretty(from_str(pretty.value).val) = pretty.value
        /\ pretty_json_str(pretty.value) = pretty.value

\* C11 witness: pretty_json_str returned the canonical text of a valid
\* text that held whitespace of its own, so that the two texts differ.
C11_Witness ==
    /\ pretty.status = "returned"
    /\ from_str(src).ok
    /\ \E k \in 1..Len(src) : src[k] = " "
    /\ \E k \in 1..Len(pretty.value) : pretty.value[k] = "\n"
    /\ pretty.value # src

\* C12: every span returned by rich_json_str has a non-empty text, on the
\* valid path and on the fallback path, for every text.
C12_NoEmptyRunAnywhere ==
    rich.status = "returned" =>
        \A k \in 1..Len(rich.value) : rich.value[k].text # <<>>

----------------------------------------------------------------------------
(* Properties of PatchLiteApp::update *)

\* C20: at most one request is outstanding, and in_flight is true exactly
\* when one is; a SendClicked received while in_flight changes no field and
\* launches nothing, a SendClicked received otherwise sets in_flight and
\* launches exactly one request, and RequestDone clears in_flight.
C20_OneOutstanding ==
    /\ [](Len(pending) <= 1 /\ (in_flight <=> Len(pending) = 1))
    /\ [][/\ (msg' = "SendClicked" /\ in_flight) =>
                UNCHANGED <<selected, method, url, response, in_flight,
                            last_error, pending>>
          /\ (msg' = "SendClicked" /\ ~ in_flight) =>
                /\ in_flight'
                /\ pending' = Append(pending, [method |-> method, url |-> url])
          /\ msg' = "RequestDone" =>
                /\ ~ in_flight'
                /\ Len(pending') = Len(pending) - 1]_vars

\* C20 witness: a SendClicked arrived while a request was in flight (the
\* url was edited after that request was launched) and was ignored.
C20_Witness ==
    /\ msg = "SendClicked"
    /\ in_flight
    /\ Len(pending) = 1
    /\ pending[1].url # url

\* C21: after SidebarSelect(k) for an existing request k, response stays None
\* until a RequestDone arrives for a SendClicked accepted after the selection.
\* Checked on the shortest case: a RequestDone that arrives right after such
\* a SidebarSelect (no SendClicked was accepted in between, so it answers a
\* request that was in flight when the selection was made) leaves response
\* None.
C21_ResponseOfSelection ==
    [][(msg = "SidebarSelect" /\ msg' = "RequestDone") => response' = <<>>]_vars

\* C22: response and last_error are never both set; an accepted SendClicked
\* clears both, and each RequestDone leaves exactly one of them set.
C22_ResponseXorError ==
    /\ [](~ (response # <<>> /\ last_error # <<>>))
    /\ [][/\ (msg' = "SendClicked" /\ ~ in_flight) =>
                (response' = <<>> /\ last_error' = <<>>)
          /\ msg' = "RequestDone" =>
                ((response' # <<>>) # (last_error' # <<>>))]_vars

\* C22 witness: after the second request was selected, a RequestDone brought
\* an error and left response None.
C22_Witness ==
    /\ msg = "RequestDone"
    /\ last_error # <<>>
    /\ response = <<>>
    /\ selected = 1

----------------------------------------------------------------------------
(* Properties of HttpRequest::send *)

\* C23: for every method (GET, POST, PUT, PATCH, DELETE) send authenticates
\* with the request's own username and password under Auth::Basic, with the
\* request's own token under Auth::Bearer, and adds no credentials under
\* Auth::None.
C23_UniformAuth ==
    (wire.status = "sent" /\ request.method # "None") =>
        /\ request.auth = "Basic" =>
              wire.credentials = [scheme |-> "Basic", user |-> request.username,
                                  secret |-> request.password]
        /\ request.auth = "Bearer" =>
              wire.credentials = [scheme |-> "Bearer", user |-> "",
                                  secret |-> request.token]
        /\ request.auth = "None" => wire.credentials.scheme = "none"

====
